---- MODULE Spec2Model ----
(***************************************************************************)
(* The chess lakehouse pipeline: read-pgn.ts ingests PGN files into        *)
(* per-source DuckDB stores, find-openings.ts copies each store and        *)
(* classifies its games against the opening catalogue, and                 *)
(* export-to-parquet.ts merges the stores into one combined table and      *)
(* exports it partitioned by (DataSource, year, month).                    *)
(*                                                                         *)
(* Each script is a sequential batch: a start step (arguments, discovery,  *)
(* reset of the outputs), one step per store (one duckdb invocation), and  *)
(* for the export a final COPY step.  A duckdb invocation that exits       *)
(* non-zero makes Bun's $ throw, which ends the script.  Only one script   *)
(* runs at a time.                                                         *)
(***************************************************************************)
EXTENDS Integers, Sequences, FiniteSets, TLC

VARIABLES
  files,      \* the .duckdb stores on disk: path -> store
  openings,   \* the rows of openings.openings in the catalogue (read only)
  combined,   \* the table "combined" of the file --outDb
  parquet,    \* the partition directories under the export's --outDir
  run,        \* the script running or last run: arguments, position, outcome
  nruns,      \* scripts started so far
  enriched    \* history: the paths whose store a completed sql of
              \* find-openings.ts left (or a copy of such a store)

vars == <<files, openings, combined, parquet, run, nruns, enriched>>

\* Scripts started in one behaviour.
MaxRuns == 3

------------------------------------------------------------------------------
(* SQL values.  NULL of a VARCHAR column, NULL of a DATE column, and an   *)
(* option parseArgs did not see.                                          *)
Null == "<NULL>"
NullDate == <<>>
Undefined == "<undefined>"

(* Texts that SQL looks into are sequences of characters. *)
T_e4e5 == <<"1", ".", " ", "e", "4", " ", "e", "5">>
T_e4e5Nf3 == T_e4e5 \o <<" ", "2", ".", " ", "N", "f", "3">>
T_e4e5Nf3Nc6 == T_e4e5Nf3 \o <<" ", "N", "c", "6">>
T_d4 == <<"1", ".", " ", "d", "4">>
T_Nf3 == <<"2", ".", " ", "N", "f", "3">>
U_e4e5 == <<"e", "2", "e", "4", " ", "e", "7", "e", "5">>
U_e4e5Nf3 == U_e4e5 \o <<" ", "g", "1", "f", "3">>
U_d4 == <<"d", "2", "d", "4">>
U_Nf3x3 == <<"g", "1", "f", "3", " ", "x", " ", "y">>

(* The games a PGN file can hold, as read_pgn returns them: game stands   *)
(* for the columns copied unchanged (Event, Site, White, Black, Result,   *)
(* titles, Elo, UTCTime, Termination, TimeControl, Source, movetext).     *)
(* DataSource is not a column of an ingested store: hasDS of the store    *)
(* says whether the column exists.                                        *)
Game(id, text, eco, opening, date, err) ==
  [game |-> id, clean_movetext |-> text, ECO |-> eco, Opening |-> opening,
   UTCDate |-> date, parse_error |-> err, DataSource |-> Null]

G1 == Game("g1", T_e4e5Nf3Nc6, Null, Null, <<2020, 1>>, Null)
G2 == Game("g2", T_d4, "A40", Null, <<1500, 12>>, Null)
G3 == Game("g3", T_e4e5, "C20", "From header", <<1499, 12>>, Null)
G4 == Game("g4", T_e4e5Nf3, Null, Null, <<2020, 1>>, "Invalid move")
G5 == Game("g5", T_e4e5Nf3, Null, Null, NullDate, Null)
G6 == Game("g6", T_e4e5, Null, "From header", <<2020, 12>>, "Invalid move")

G7 == Game("g7", T_e4e5Nf3Nc6, Null, Null, <<2020, 1>>, Null)

GamePool == {G1, G2, G3, G4, G5, G6, G7}

(* The catalogue's rows.  O2 and O3 have the same ply and are both        *)
(* contained in T_e4e5Nf3 and T_e4e5Nf3Nc6.                               *)
O1 == [eco |-> "C20", name |-> "King's Pawn", uci |-> U_e4e5, pgn |-> T_e4e5]
O2 == [eco |-> "C40", name |-> "King's Knight", uci |-> U_e4e5Nf3, pgn |-> T_e4e5Nf3]
O3 == [eco |-> "C41", name |-> "Knight line", uci |-> U_Nf3x3, pgn |-> T_Nf3]
O4 == [eco |-> "A45", name |-> "Queen's Pawn", uci |-> U_d4, pgn |-> T_d4]

Catalogues == {{O1, O2, O3}, {O1, O4}}

(* Directories holding stores, and the file stems in them. *)
Dirs == {"ingested", "enriched"}
Names == {"a", "B", "c"}
Paths == Dirs \X Names

(* The directories of PGN files read-pgn.ts may be pointed at. *)
PgnDirs ==
  { <<>>,
    [n \in {"a"} |-> <<G1, G2>>],
    [n \in {"a", "B", "c"} |->
       IF n = "a" THEN <<G4, G5>> ELSE IF n = "B" THEN <<G3>> ELSE <<G6, G7>>] }

(* The labels find-openings.ts may be given as --dataSource. *)
EnrichLabels == {"lumbras"}

NoFile == [exists |-> FALSE, hasDS |-> FALSE, rows |-> <<>>]
Store(ds, rs) == [exists |-> TRUE, hasDS |-> ds, rows |-> rs]

NoRun ==
  [op |-> "none", phase |-> "done", inDir |-> "", outDir |-> "", dbs |-> <<>>,
   i |-> 1, dataSource |-> Undefined, key |-> Undefined, cat |-> "ok",
   pgn |-> <<>>, first |-> TRUE, step |-> "start", stale |-> {}, again |-> {}]

------------------------------------------------------------------------------
(* Sequences and text *)

Range(s) == {s[k] : k \in 1..Len(s)}

Orderings(S) ==
  {s \in [1..Cardinality(S) -> S] : \A x \in S : \E k \in 1..Cardinality(S) : s[k] = x}

\* CONTAINS(text, search): search occurs in text.  NULL arguments give NULL,
\* which the WHERE clause treats as false; no text of the model is NULL.
Contains(text, search) ==
  \E k \in 0..(Len(text) - Len(search)) : SubSeq(text, k + 1, k + Len(search)) = search

RECURSIVE StringSplit(_, _)
\* string_split(s, sep) for a one-character separator: the pieces between
\* the separators, empty pieces included.
StringSplit(s, sep) ==
  IF \A k \in 1..Len(s) : s[k] # sep THEN <<s>>
  ELSE LET k == CHOOSE j \in 1..Len(s) : s[j] = sep /\ \A h \in 1..(j - 1) : s[h] # sep
       IN <<SubSeq(s, 1, k - 1)>> \o StringSplit(SubSeq(s, k + 1, Len(s)), sep)

------------------------------------------------------------------------------
(* lib/pipeline-utils *)

\* listFilesByExtensionRecursively(dir, ".duckdb"): the stores under dir, in
\* the order the directory walk meets them.
ListFiles(fs, dir) == Orderings({p \in Paths : p[1] = dir /\ fs[p].exists})

------------------------------------------------------------------------------
(* read-pgn.ts *)

\* CREATE TABLE IF NOT EXISTS games AS SELECT *, chess_moves_normalize(movetext)
\* FROM read_pgn(pgnPath), run on the store outDb (created when missing).
ReadOnePgnSql(store, games) ==
  IF store.exists THEN store ELSE Store(FALSE, games)

\* The script up to its loop: arguments, mkdirSync, discovery of the PGNs.
ReadPgnStart ==
  /\ run.phase \in {"done", "failed"}
  /\ nruns < MaxRuns
  /\ \E pg \in PgnDirs, out \in {"ingested"} :
       \E order \in Orderings(DOMAIN pg) :
         run' = [NoRun EXCEPT !.op = "read", !.outDir = out, !.dbs = order,
                   !.pgn = pg,
                   !.phase = IF order = <<>> THEN "failed" ELSE "loop"]
  /\ nruns' = nruns + 1
  /\ UNCHANGED <<files, openings, combined, parquet, enriched>>

\* One pass of the loop: readOnePgn.
ReadOnePgn ==
  /\ run.op = "read" /\ run.phase = "loop"
  /\ LET stem == run.dbs[run.i]
         outDb == <<run.outDir, stem>>
     IN files' = [files EXCEPT ![outDb] = ReadOnePgnSql(files[outDb], run.pgn[stem])]
  /\ run' = [run EXCEPT !.i = run.i + 1,
               !.phase = IF run.i = Len(run.dbs) THEN "done" ELSE "loop"]
  /\ UNCHANGED <<openings, combined, parquet, nruns, enriched>>

------------------------------------------------------------------------------
(* find-openings.ts *)

\* array_length(string_split(uci, ' ')) AS opening_ply
OpeningPly(o) == Len(StringSplit(o.uci, " "))

\* Mutant: target also leaves out the games with a parse error.
TargetParsed(g) == g.Opening = Null /\ g.parse_error = Null

\* Mutant: target is every game.
TargetAll(g) == TRUE

\* target: the games WHERE Opening IS NULL
Target(g) == g.Opening = Null

\* Mutant: ORDER BY o.opening_ply ASC LIMIT 1.
OrderByPlyAscLimit1(rows) ==
  {o \in rows : \A q \in rows : OpeningPly(o) <= OpeningPly(q)}

\* ORDER BY o.opening_ply DESC LIMIT 1: the first row of the ordering, one of
\* the rows of greatest ply (which one, where plies are equal, the engine
\* does not say).
OrderByPlyDescLimit1(rows) ==
  {o \in rows : \A q \in rows : OpeningPly(q) <= OpeningPly(o)}

\* The lateral subquery for one target game: the catalogue rows whose pgn the
\* game's clean_movetext contains, ordered and cut to one.
Lateral(cat, g) ==
  OrderByPlyDescLimit1({o \in cat : Contains(g.clean_movetext, o.pgn)})

\* SET eco = o.eco, Opening = o.name
SetOpening(g, o) == [g EXCEPT !.ECO = o.eco, !.Opening = o.name]

\* The UPDATE ... FROM target t JOIN LATERAL (...) o ON TRUE: every result
\* the statement can leave in games.  A target game with no matching row has
\* no row in the join and is not updated.
Classified(cat, rows) ==
  {new \in [1..Len(rows) -> {SetOpening(rows[k], o) : k \in 1..Len(rows), o \in cat}
                              \cup Range(rows)] :
     \A k \in 1..Len(rows) :
       IF Target(rows[k]) /\ Lateral(cat, rows[k]) # {}
       THEN \E o \in Lateral(cat, rows[k]) : new[k] = SetOpening(rows[k], o)
       ELSE new[k] = rows[k]}

\* ALTER TABLE games ADD COLUMN IF NOT EXISTS DataSource VARCHAR
AddDataSourceColumn(store) ==
  IF store.hasDS THEN store ELSE [store EXCEPT !.hasDS = TRUE]

\* UPDATE games SET DataSource = '<label>'
SetDataSource(store, label) ==
  [store EXCEPT !.rows = [k \in 1..Len(store.rows) |->
                            [store.rows[k] EXCEPT !.DataSource = label]]]

\* The statements of sql that the engine commits before the invocation ends.
\* Each statement of a duckdb -c script is its own transaction: with the
\* catalogue file missing ATTACH fails, with a catalogue that lacks the
\* columns the classification UPDATE fails, and what ran before stays.
\* The results: <<store left on disk, exit code>>.
EnrichSql(store, label, cat, status) ==
  LET tagged == SetDataSource(AddDataSourceColumn(store), label)
  IN IF status # "ok" THEN {<<tagged, 1>>}
     ELSE {<<[tagged EXCEPT !.rows = new], 0>> : new \in Classified(cat, tagged.rows)}

\* Mutant: sql is run on the store it was to copy.
DstDbInPlace(inDir, outDir, srcDb) == srcDb

\* rel = relative(inDir, srcDb); dstDb = join(outDir, rel)
DstDb(inDir, outDir, srcDb) == <<outDir, srcDb[2]>>

\* The script up to its loop: the usage check, mkdirSync, discovery.
FindOpeningsStart ==
  /\ run.phase \in {"done", "failed"}
  /\ nruns < MaxRuns
  /\ \E inDir \in Dirs, out \in Dirs, label \in EnrichLabels \cup {""},
        status \in {"ok", "missing", "no columns"} :
       \E dbs \in ListFiles(files, inDir) :
         run' = [NoRun EXCEPT !.op = "enrich", !.inDir = inDir, !.outDir = out,
                   !.dataSource = label, !.cat = status,
                   !.again = {p \in Paths : p[1] = inDir} \cap enriched,
                   !.dbs = IF label = "" THEN <<>> ELSE dbs,
                   !.phase = IF label = "" \/ dbs = <<>> THEN "failed" ELSE "loop"]
  /\ nruns' = nruns + 1
  /\ UNCHANGED <<files, openings, combined, parquet, enriched>>

\* One pass of the loop: copy the store, then run sql on the copy.  With
\* outDir = inDir the copy is of the store onto itself and leaves it as it is.
FindOpeningsStore ==
  /\ run.op = "enrich" /\ run.phase = "loop"
  /\ LET srcDb == run.dbs[run.i]
         dstDb == DstDb(run.inDir, run.outDir, srcDb)
         copied == [files EXCEPT ![dstDb] = files[srcDb]]
     IN \E res \in EnrichSql(copied[dstDb], run.dataSource, openings, run.cat) :
          /\ files' = [copied EXCEPT ![dstDb] = res[1]]
          /\ enriched' = IF res[2] = 0 \/ srcDb \in enriched
                         THEN enriched \cup {dstDb} ELSE enriched \ {dstDb}
          /\ run' = [run EXCEPT !.i = run.i + 1,
                       !.phase = IF res[2] # 0 THEN "failed"
                                 ELSE IF run.i = Len(run.dbs) THEN "done" ELSE "loop"]
  /\ UNCHANGED <<openings, combined, parquet, nruns>>

------------------------------------------------------------------------------
(* export-to-parquet.ts *)

\* a.localeCompare(b) on two paths of one directory: the stems decide.  The
\* collation compares the letters before their case, which puts "a" before
\* "B" before "c" (by code unit "B" would come first).
LocaleCompare(a, b) ==
  LET rank == [n \in Names |-> IF n = "a" THEN 1 ELSE IF n = "B" THEN 2 ELSE 3]
  IN IF rank[a[2]] < rank[b[2]] THEN -1 ELSE IF rank[a[2]] > rank[b[2]] THEN 1 ELSE 0

RECURSIVE Insert(_, _)
Insert(sorted, x) ==
  IF sorted = <<>> THEN <<x>>
  ELSE IF LocaleCompare(x, Head(sorted)) < 0 THEN <<x>> \o sorted
  ELSE <<Head(sorted)>> \o Insert(Tail(sorted), x)

RECURSIVE InsertAll(_)
InsertAll(s) ==
  IF s = <<>> THEN <<>> ELSE Insert(InsertAll(SubSeq(s, 1, Len(s) - 1)), s[Len(s)])

\* Mutant: the stores are taken in the order they were listed.
Unsorted(s) == s

\* dbs.sort((a, b) => a.localeCompare(b))
Sort(s) == InsertAll(s)

\* Mutant: --key is not looked at.
DataSourceArgNoKey(dataSource, key) == dataSource

\* const dataSource = args.dataSource ?? args.key
DataSourceArg(dataSource, key) == IF dataSource # Undefined THEN dataSource ELSE key

\* dataSource ? ... : ...   (undefined and "" are falsy)
Truthy(x) == x # Undefined /\ x # ""

\* year(UTCDate) and strftime(UTCDate, '%m'), the month as two digits
Year(date) == date[1]
Month(date) == <<date[2] \div 10, date[2] % 10>>

\* The year below which a date is taken for a placeholder.
MinYear == 1500

\* Mutant: the year is not looked at.
EligibleAnyYear(g) == g.UTCDate # NullDate

\* WHERE UTCDate IS NOT NULL AND year(UTCDate) >= 1500
Eligible(g) == g.UTCDate # NullDate /\ Year(g.UTCDate) >= MinYear

\* The SELECT list: the copied columns, dataSourceSelect, year and month.
Projection(g, dataSource) ==
  [game |-> g.game, UTCDate |-> g.UTCDate, ECO |-> g.ECO, Opening |-> g.Opening,
   DataSource |-> IF Truthy(dataSource) THEN dataSource ELSE g.DataSource,
   year |-> Year(g.UTCDate), month |-> Month(g.UTCDate)]

RECURSIVE Select(_, _)
\* The rows the SELECT returns from src.games, in table order.
Select(rows, dataSource) ==
  IF rows = <<>> THEN <<>>
  ELSE (IF Eligible(Head(rows)) THEN <<Projection(Head(rows), dataSource)>> ELSE <<>>)
         \o Select(Tail(rows), dataSource)

\* attachAndSelect, run on outDb: <<combined left in outDb, exit code>>.  The
\* SELECT names the column DataSource unless a label stands in for it; a store
\* without that column makes the statement fail, as does CREATE TABLE on a
\* table that exists or INSERT INTO one that does not.
AttachAndSelect(table, store, first, dataSource) ==
  IF \/ ~Truthy(dataSource) /\ ~store.hasDS
     \/ first = table.exists
  THEN <<table, 1>>
  ELSE <<[exists |-> TRUE, rows |-> table.rows \o Select(store.rows, dataSource)], 0>>

\* Mutant: PARTITION_BY (DataSource, year).
PartitionKeyNoMonth(r) == <<r.DataSource, r.year>>

\* PARTITION_BY (DataSource, year, month)
PartitionKey(r) == <<r.DataSource, r.year, r.month>>

RECURSIVE RowsOf(_, _)
RowsOf(rows, k) ==
  IF rows = <<>> THEN <<>>
  ELSE (IF PartitionKey(Head(rows)) = k THEN <<Head(rows)>> ELSE <<>>) \o RowsOf(Tail(rows), k)

\* copySql: what COPY combined TO outDir leaves under outDir, with the exit
\* code.  A partitioned COPY refuses a directory that holds files, and
\* writes one directory per key.
CopySql(dir, table) ==
  LET keys == {PartitionKey(table.rows[k]) : k \in 1..Len(table.rows)}
  IN IF DOMAIN dir # {} THEN <<dir, 1>>
     ELSE <<[k \in keys |-> RowsOf(table.rows, k)], 0>>

\* copySql when a write fails (the target cannot be written, the disk is
\* full): the directories written until then stay.
CopySqlWriteError(dir, table) ==
  LET keys == {PartitionKey(table.rows[k]) : k \in 1..Len(table.rows)}
  IN IF DOMAIN dir # {} THEN {<<dir, 1>>}
     ELSE {<<[k \in ks |-> RowsOf(table.rows, k)], 1>> : ks \in SUBSET keys}

\* The script up to its loop: discovery in sorted order, the check for no
\* input, and the removal of outDir and outDb.
ExportStart ==
  /\ run.phase \in {"done", "failed"}
  /\ nruns < MaxRuns
  /\ \E inDir \in Dirs, dataSource \in {Undefined, "", "pgnmentor"},
        key \in {Undefined, "gigabase"} :
       \E listed \in ListFiles(files, inDir) :
         LET dbs == Sort(listed)
         IN /\ run' = [NoRun EXCEPT !.op = "export", !.inDir = inDir, !.dbs = dbs,
                         !.dataSource = dataSource, !.key = key,
                         !.stale = DOMAIN parquet,
                         !.phase = IF dbs = <<>> THEN "failed" ELSE "loop"]
            /\ combined' = IF dbs = <<>> THEN combined ELSE [exists |-> FALSE, rows |-> <<>>]
            /\ parquet' = IF dbs = <<>> THEN parquet ELSE <<>>
  /\ nruns' = nruns + 1
  /\ UNCHANGED <<files, openings, enriched>>

\* One pass of the loop: the store is merged into combined.
ExportStore ==
  /\ run.op = "export" /\ run.phase = "loop"
  /\ LET db == run.dbs[run.i]
         res == AttachAndSelect(combined, files[db], run.first,
                                DataSourceArg(run.dataSource, run.key))
     IN /\ combined' = res[1]
        /\ run' = [run EXCEPT !.i = run.i + 1, !.first = FALSE, !.step = "store",
                     !.phase = IF res[2] # 0 THEN "failed"
                               ELSE IF run.i = Len(run.dbs) THEN "copy" ELSE "loop"]
  /\ UNCHANGED <<files, openings, parquet, enriched, nruns>>

\* After the loop: the row count is printed and combined is exported.
ExportCopy ==
  /\ run.op = "export" /\ run.phase = "copy"
  /\ LET res == CopySql(parquet, combined)
     IN /\ parquet' = res[1]
        /\ run' = [run EXCEPT !.step = "copy",
                     !.phase = IF res[2] # 0 THEN "failed" ELSE "done"]
  /\ UNCHANGED <<files, openings, combined, enriched, nruns>>

\* The same step when the file system fails a write of the COPY.
ExportCopyWriteError ==
  /\ run.op = "export" /\ run.phase = "copy"
  /\ \E res \in CopySqlWriteError(parquet, combined) :
       /\ parquet' = res[1]
       /\ run' = [run EXCEPT !.step = "copy", !.phase = "failed"]
  /\ UNCHANGED <<files, openings, combined, enriched, nruns>>

------------------------------------------------------------------------------
Init ==
  /\ files = [p \in Paths |-> NoFile]
  /\ openings \in Catalogues
  /\ combined = [exists |-> FALSE, rows |-> <<>>]
  /\ parquet = <<>>
  /\ run = NoRun
  /\ nruns = 0
  /\ enriched = {}

Next ==
  \/ ReadPgnStart
  \/ ReadOnePgn
  \/ FindOpeningsStart
  \/ FindOpeningsStore
  \/ ExportStart
  \/ ExportStore
  \/ ExportCopy
  \/ ExportCopyWriteError

Spec == Init /\ [][Next]_vars

\* The scripts on a file system that fails no write.
NextNoWriteError ==
  \/ ReadPgnStart
  \/ ReadOnePgn
  \/ FindOpeningsStart
  \/ FindOpeningsStore
  \/ ExportStart
  \/ ExportStore
  \/ ExportCopy

SpecNoWriteError == Init /\ [][NextNoWriteError]_vars

------------------------------------------------------------------------------
(* Properties *)

\* The state before a pass of the loop of find-openings.ts, and the store the
\* pass reads and the store it writes.
EnrichPass == run.op = "enrich" /\ run.phase = "loop"
PassSrc == run.dbs[run.i]
PassDst == <<run.outDir, PassSrc[2]>>

\* The state before a pass of the loop of export-to-parquet.ts.
MergePass == run.op = "export" /\ run.phase = "loop"

\* The number of tokens of a text: one more than its spaces.
TokenCount(text) == Cardinality({k \in 1..Len(text) : text[k] = " "}) + 1

\* The catalogue rows whose pgn occurs in the game's clean move text.
Matching(g) == {o \in openings : Contains(g.clean_movetext, o.pgn)}

\* C1: an enrichment pass with a readable catalogue succeeds, and for every
\* game of the store whose opening was null: if some catalogue row matches,
\* the copy's eco and opening are those of one matching row whose token count
\* of uci is the greatest among the matching rows; if none matches, eco and
\* opening are as they were.
C1_LongestMatchWins ==
  [][ (EnrichPass /\ run.cat = "ok") =>
        /\ run'.phase # "failed"
        /\ Len(files'[PassDst].rows) = Len(files[PassSrc].rows)
        /\ \A k \in 1..Len(files[PassSrc].rows) :
             LET g == files[PassSrc].rows[k]
                 h == files'[PassDst].rows[k]
             IN g.Opening = Null =>
                  IF Matching(g) # {}
                  THEN \E o \in Matching(g) :
                         /\ h.ECO = o.eco /\ h.Opening = o.name
                         /\ \A q \in Matching(g) : TokenCount(q.uci) <= TokenCount(o.uci)
                  ELSE h.ECO = g.ECO /\ h.Opening = g.Opening ]_vars

\* C1's case: a finished enrichment under the catalogue {O1, O2, O3} left g1,
\* which O1 (2 plies), O2 and O3 (3 plies) match, with O2's labels, and g2,
\* which no row matches, with the eco of its header and no opening.
C1_Witness ==
  /\ run.op = "enrich" /\ run.phase = "done" /\ openings = {O1, O2, O3}
  /\ \E p \in Paths :
       /\ p[1] = run.outDir /\ files[p].exists /\ Len(files[p].rows) = 2
       /\ files[p].rows[1].game = "g1" /\ files[p].rows[1].Opening = O2.name
       /\ files[p].rows[1].ECO = O2.eco
       /\ files[p].rows[2].game = "g2" /\ files[p].rows[2].Opening = Null
       /\ files[p].rows[2].ECO = "A40"

\* C3: an enrichment pass leaves the eco and opening of every game whose
\* opening is not null as they are, and leaves the eco and opening of every
\* game of a store that the classifier has already enriched as they are.
C3_Idempotent ==
  [][ EnrichPass =>
        \A k \in 1..Len(files[PassSrc].rows) :
          LET g == files[PassSrc].rows[k]
              h == files'[PassDst].rows[k]
          IN (g.Opening # Null \/ PassSrc \in enriched) =>
               h.ECO = g.ECO /\ h.Opening = g.Opening ]_vars

\* C3's case: a finished enrichment, over stores already enriched, of a game
\* that O2 and O3 match with the same ply and that carries O3's labels.
C3_Witness ==
  /\ run.op = "enrich" /\ run.phase = "done" /\ run.cat = "ok"
  /\ \E p \in run.again :
       LET d == <<run.outDir, p[2]>>
       IN /\ files[d].exists
          /\ \E k \in 1..Len(files[d].rows) :
               /\ {O2, O3} \subseteq Matching(files[d].rows[k])
               /\ files[d].rows[k].Opening = O3.name

PoolGame(id) == CHOOSE g \in GamePool : g.game = id
HasParseError(id) == PoolGame(id).parse_error # Null

\* The rows of the partition directories, as a set.
ParquetRows == UNION {Range(parquet[k]) : k \in DOMAIN parquet}

\* C2 as stated: no game with a parse error has an eco or opening other than
\* those read from its PGN, and no such game is in the combined table or in
\* a partition.
C2_AsStated ==
  /\ \A p \in Paths : \A k \in 1..Len(files[p].rows) :
       LET g == files[p].rows[k]
       IN g.parse_error # Null =>
            g.ECO = PoolGame(g.game).ECO /\ g.Opening = PoolGame(g.game).Opening
  /\ \A j \in 1..Len(combined.rows) : ~HasParseError(combined.rows[j].game)
  /\ \A r \in ParquetRows : ~HasParseError(r.game)

\* C2 amended: a parse error is kept and is not looked at.  A successful
\* enrichment pass gives a game with a parse error, a null opening and a
\* matching catalogue row the name of a matching row; a successful merge pass
\* appends every game of the store with a parse error and a date of year
\* 1500 or later to the combined table; and a successful COPY puts every game
\* of the combined table into a partition.
C2_ParseErrorNotConsulted ==
  [][ /\ (EnrichPass /\ run'.phase # "failed") =>
           \A k \in 1..Len(files[PassSrc].rows) :
             LET g == files[PassSrc].rows[k]
                 h == files'[PassDst].rows[k]
             IN g.parse_error # Null =>
                  /\ h.parse_error = g.parse_error
                  /\ (g.Opening = Null /\ Matching(g) # {}) =>
                       h.Opening \in {o.name : o \in Matching(g)}
      /\ (MergePass /\ run'.phase # "failed") =>
           \A k \in 1..Len(files[run.dbs[run.i]].rows) :
             LET g == files[run.dbs[run.i]].rows[k]
             IN (g.parse_error # Null /\ g.UTCDate # NullDate /\ g.UTCDate[1] >= 1500) =>
                  \E j \in (Len(combined.rows) + 1)..Len(combined'.rows) :
                    combined'.rows[j].game = g.game
      /\ (run.op = "export" /\ run.phase = "copy" /\ run'.phase = "done") =>
           \A j \in 1..Len(combined.rows) :
             \E k \in DOMAIN parquet' : \E m \in 1..Len(parquet'[k]) :
               parquet'[k][m].game = combined.rows[j].game ]_vars

\* C2's case: a finished export with g4, a game with a parse error, in the
\* combined table and in a partition under an opening the classifier gave it.
C2_Witness ==
  /\ run.op = "export" /\ run.phase = "done"
  /\ \E j \in 1..Len(combined.rows) :
       /\ combined.rows[j].game = "g4" /\ HasParseError("g4")
       /\ combined.rows[j].Opening \in {O2.name, O3.name}
       /\ combined.rows[j] \in ParquetRows

\* The stores of a directory and their games that have a date of year 1500
\* or later, as <<path, row number>>.
InputGames(dir) ==
  {e \in Paths \X (1..2) :
     /\ e[1][1] = dir /\ files[e[1]].exists /\ e[2] <= Len(files[e[1]].rows)
     /\ files[e[1]].rows[e[2]].UTCDate # NullDate
     /\ files[e[1]].rows[e[2]].UTCDate[1] >= 1500}

\* The label the run gives: --dataSource when given, else --key.
RunLabel == IF run.dataSource # Undefined THEN run.dataSource ELSE run.key

\* The partition a game of the input is due in.
DueKey(e) ==
  LET g == files[e[1]].rows[e[2]]
  IN << IF RunLabel \notin {Undefined, ""} THEN RunLabel ELSE g.DataSource,
        g.UTCDate[1],
        <<g.UTCDate[2] \div 10, g.UTCDate[2] % 10>> >>

\* C4: after a successful export the partition directories are those due for
\* the games of this run's input stores, each holds as many rows as games
\* are due in it, and the combined table holds as many rows as the input has
\* games with a date of year 1500 or later; nothing else is there.
C4_CleanSlate ==
  (run.op = "export" /\ run.phase = "done") =>
    /\ DOMAIN parquet = {DueKey(e) : e \in InputGames(run.inDir)}
    /\ \A k \in DOMAIN parquet :
         Len(parquet[k]) = Cardinality({e \in InputGames(run.inDir) : DueKey(e) = k})
    /\ Len(combined.rows) = Cardinality(InputGames(run.inDir))

\* C4's case: a finished export that wrote partitions, where a partition
\* that was there when the run started is there no more.
C4_Witness ==
  /\ run.op = "export" /\ run.phase = "done"
  /\ DOMAIN parquet # {}
  /\ \E k \in run.stale : k \notin DOMAIN parquet

\* C5 as stated: an export that aborted after it reset its outputs has left
\* neither a combined table of some of the stores nor some of the partitions.
C5_AsStated ==
  (run.op = "export" /\ run.phase = "failed") =>
    /\ ~(run.step = "store" /\ combined.exists)
    /\ ~(/\ run.step = "copy"
         /\ DOMAIN parquet # {}
         /\ DOMAIN parquet # {<<combined.rows[j].DataSource, combined.rows[j].year,
                                 combined.rows[j].month>> : j \in 1..Len(combined.rows)})

\* A store on which enrichment is complete: every game carries the run's
\* label and no game with a null opening has a matching catalogue row.
FullyEnriched(store) ==
  /\ store.exists /\ store.hasDS
  /\ \A k \in 1..Len(store.rows) :
       /\ store.rows[k].DataSource = run.dataSource
       /\ store.rows[k].Opening = Null => Matching(store.rows[k]) = {}

\* C6 as stated: a pass of the enrichment loop leaves the store at the
\* output location fully enriched, or, when the pass fails, as it was.
C6_AsStated ==
  [][ EnrichPass =>
        IF run'.phase = "failed" THEN files'[PassDst] = files[PassDst]
        ELSE FullyEnriched(files'[PassDst]) ]_vars

\* The store of the run's input that holds a game, with the game's row
\* number, and the DataSource the game has there.
StoredAt(id) ==
  CHOOSE x \in Paths \X (1..2) :
    /\ x[1][1] = run.inDir /\ x[2] <= Len(files[x[1]].rows)
    /\ files[x[1]].rows[x[2]].game = id
StoredLabel(id) == files[StoredAt(id)[1]].rows[StoredAt(id)[2]].DataSource

ExportedRows == Range(combined.rows) \cup ParquetRows

\* C7 as stated: after a successful export, with --dataSource given every
\* row carries it, and without it every row of a game whose store has the
\* column DataSource carries the DataSource the game has there.
C7_AsStated ==
  (run.op = "export" /\ run.phase = "done") =>
    \A r \in ExportedRows :
      IF run.dataSource \notin {Undefined, ""} THEN r.DataSource = run.dataSource
      ELSE files[StoredAt(r.game)[1]].hasDS => r.DataSource = StoredLabel(r.game)

\* C7 amended: the label is --dataSource when given, else --key.  After a
\* successful export every row carries the label when it is a non-empty
\* text, and else the DataSource its game has in its store.
C7_LabelPrecedence ==
  (run.op = "export" /\ run.phase = "done") =>
    \A r \in ExportedRows :
      IF RunLabel \notin {Undefined, ""} THEN r.DataSource = RunLabel
      ELSE r.DataSource = StoredLabel(r.game)

\* C7's case: a finished export given --key and no --dataSource, with a row
\* that carries the key while its game is stored under another label.
C7_Witness ==
  /\ run.op = "export" /\ run.phase = "done"
  /\ run.dataSource = Undefined /\ run.key = "gigabase"
  /\ \E r \in ExportedRows : r.DataSource = "gigabase" /\ StoredLabel(r.game) = "lumbras"

\* C8: every row of the combined table and of the partitions has a date, of
\* year 1500 or later, and a year key of 1500 or later, and so has every
\* partition directory.
C8_DateFilter ==
  /\ \A r \in ExportedRows :
       r.UTCDate # NullDate /\ r.UTCDate[1] >= 1500 /\ r.year >= 1500
  /\ \A k \in DOMAIN parquet : k[2] >= 1500

\* C8's case: a finished export with rows, over stores that hold a
\* classified game with no date and a game of a year before 1500.
C8_Witness ==
  /\ run.op = "export" /\ run.phase = "done" /\ ParquetRows # {}
  /\ \E p \in Range(run.dbs) : \E k \in 1..Len(files[p].rows) :
       files[p].rows[k].UTCDate = NullDate /\ files[p].rows[k].Opening # Null
  /\ \E p \in Range(run.dbs) : \E k \in 1..Len(files[p].rows) :
       files[p].rows[k].UTCDate # NullDate /\ files[p].rows[k].UTCDate[1] < 1500

\* The stores of a directory in ascending order of path, the order being
\* that of localeCompare.
StoresAscending(dir) ==
  SelectSeq(<< <<dir, "a">>, <<dir, "B">>, <<dir, "c">> >>, LAMBDA p : files[p].exists)

\* The ids of the games of a store that have a date of year 1500 or later,
\* in the store's order.
DatedGames(p) ==
  LET kept == SelectSeq(files[p].rows,
                        LAMBDA g : g.UTCDate # NullDate /\ g.UTCDate[1] >= 1500)
  IN [k \in 1..Len(kept) |-> kept[k].game]

RECURSIVE DatedGamesOfFirst(_, _)
DatedGamesOfFirst(stores, n) ==
  IF n = 0 THEN <<>> ELSE DatedGamesOfFirst(stores, n - 1) \o DatedGames(stores[n])

====
